---------------------------- MODULE Spec2Model ----------------------------
(***************************************************************************)
(* State-machine model of the NovaZone backend (backend/server.py).        *)
(*                                                                         *)
(* The state is the content of the MongoDB collections the handlers use    *)
(* and, for every request in flight, the handler's position and locals.    *)
(* A handler is cut at its awaits on the database: one action performs one *)
(* database operation and runs the handler's code up to the next one, so   *)
(* the actions of different requests interleave exactly where the event    *)
(* loop may switch between them.                                           *)
(***************************************************************************)
EXTENDS Integers, Sequences, FiniteSets, TLC

VARIABLES users, teachers, courses, progress, quizzes, quiz_submissions,
          community_posts, nextId, req, last

vars == <<users, teachers, courses, progress, quizzes, quiz_submissions,
          community_posts, nextId, req, last>>

(***************************************************************************)
(* Bounds of the model.                                                    *)
(***************************************************************************)
\* register requests that get past the e-mail check (user ids generated)
MaxUsers == 2
\* courses create_course constructs
MaxCourses == 2
\* Progress records enroll_in_course constructs
MaxEnrolls == 3
\* quizzes get_course_quiz constructs
MaxQuizzes == 2
\* quiz submissions submit_quiz stores
MaxSubmissions == 2
\* courses stored when the listing specification starts
MaxListed == 51
\* posts create_community_post constructs
MaxPosts == 1

\* The request slots: requests that may be in flight at the same time.
Reqs == {1, 2}

(***************************************************************************)
(* Values.                                                                 *)
(***************************************************************************)
\* Python's None in a string-valued field, and in an id-valued field.
None == "None"
NoneId == <<"None", 0>>
\* No document: what find_one returns when nothing matches.
NoDoc == [missing |-> TRUE]
\* An unused part of a request record.
Nil == [nil |-> TRUE]

\* str(uuid.uuid4()): the n-th id generated for a collection.
Uuid(kind, n) == <<kind, n>>

\* A lookup that falls back on the first document when none matches.
FirstIndexOrFirst(coll, field, value) ==
    IF \E i \in 1..Len(coll) : coll[i][field] = value
    THEN CHOOSE i \in 1..Len(coll) :
            coll[i][field] = value /\ \A j \in 1..(i - 1) : coll[j][field] # value
    ELSE IF Len(coll) > 0 THEN 1 ELSE 0

\* The index of the first document matching the query {field: value}, 0 if
\* none: find_one and update_one act on the first match in natural order.
FirstIndex(coll, field, value) ==
    IF \E i \in 1..Len(coll) : coll[i][field] = value
    THEN CHOOSE i \in 1..Len(coll) :
            coll[i][field] = value /\ \A j \in 1..(i - 1) : coll[j][field] # value
    ELSE 0

\* find_one({field: value})
FindOne(coll, field, value) ==
    LET i == FirstIndex(coll, field, value) IN IF i = 0 THEN NoDoc ELSE coll[i]

\* find({field: value}): the matching documents, in order.
Find(coll, field, value) ==
    LET Matches(doc) == doc[field] = value IN SelectSeq(coll, Matches)

\* The smaller of two numbers.
Min(a, b) == IF a <= b THEN a ELSE b

\* cursor.to_list(n): at most the first n documents.
ToList(cursor, n) == SubSeq(cursor, 1, Min(n, Len(cursor)))

\* The number of positions of a sequence holding x.
Count(seq, x) == Cardinality({i \in 1..Len(seq) : seq[i] = x})

(***************************************************************************)
(* Requests.                                                               *)
(***************************************************************************)
\* req[r] is the request in flight in slot r, Idle when there is none; last is
\* the last request that ended, with its response.
Idle == [op |-> "none", pc |-> "idle", status |-> 0, arg |-> Nil, loc |-> Nil,
         body |-> Nil, solo |-> TRUE]

InFlight(q) == q.pc \notin {"idle", "done"}

\* A request arrives in the lowest free slot: which slot holds a request has
\* no meaning to the program.
Free(r) == ~InFlight(req[r]) /\ \A s \in Reqs : s < r => InFlight(req[s])

NoneInFlight == \A s \in Reqs : ~InFlight(req[s])

\* The requests in flight when another request takes a step between theirs.
Interleaved == [s \in Reqs |-> IF InFlight(req[s]) THEN [req[s] EXCEPT !.solo = FALSE]
                               ELSE req[s]]

\* A request in its first atomic segment. solo records whether the request
\* runs with no other request in flight from its start to its end.
NewReq(op, arg) == [Idle EXCEPT !.op = op, !.arg = arg, !.pc = "start",
                                !.solo = NoneInFlight]

\* The record of a request that ends with a response.
Respond(q, status, body) == [q EXCEPT !.pc = "done", !.status = status, !.body = body]

\* Request q starts in slot r and stops at its next database operation.
Started(r, q) ==
    /\ req' = [Interleaved EXCEPT ![r] = q]
    /\ last' = last

\* Request q starts and ends in one atomic segment.
Answered(q, status, body) ==
    /\ req' = Interleaved
    /\ last' = Respond(q, status, body)

\* The request in slot r goes on to its next database operation as q.
Continued(r, q) ==
    /\ req' = [req EXCEPT ![r] = q]
    /\ last' = last

\* The request in slot r ends with a response.
Ended(r, status, body) ==
    /\ req' = [req EXCEPT ![r] = Idle]
    /\ last' = Respond(req[r], status, body)

(***************************************************************************)
(* Identity and tokens.                                                    *)
(***************************************************************************)
\* passlib's bcrypt hash of a password: not the password, and verified only
\* by the password it was made from.
get_password_hash(password) == [scheme |-> "bcrypt", digest_of |-> password]

verify_password(plain_password, hashed_password) ==
    /\ hashed_password.scheme = "bcrypt"
    /\ hashed_password.digest_of = plain_password

\* A bearer token as the server sees it: whether it decodes under SECRET_KEY,
\* whether its exp lies before utcnow() when it is decoded, and its "sub".
create_access_token(sub) == [wellformed |-> TRUE, expired |-> FALSE, sub |-> sub]

MalformedToken == [wellformed |-> FALSE, expired |-> FALSE, sub |-> NoneId]

\* The subjects a presented token may name: every id register can generate,
\* one that no user has (ids are generated from 1 on), and none at all.
UnknownSub == Uuid("user", 0)

SubIds == {NoneId, UnknownSub} \cup {Uuid("user", n) : n \in 1..MaxUsers}

\* The tokens a client presents: one that does not decode, one past its
\* expiry, and unexpired ones for every subject.
ExpiredToken == [wellformed |-> TRUE, expired |-> TRUE, sub |-> Uuid("user", 1)]

PresentedTokens ==
    {MalformedToken, ExpiredToken} \cup {create_access_token(s) : s \in SubIds}

\* The exception classes the jwt module (PyJWT) exports.
JwtExceptionNames ==
    {"PyJWTError", "InvalidTokenError", "DecodeError", "InvalidSignatureError",
     "ExpiredSignatureError", "InvalidAudienceError", "InvalidIssuerError",
     "InvalidIssuedAtError", "ImmatureSignatureError", "InvalidKeyError",
     "InvalidAlgorithmError", "MissingRequiredClaimError"}

\* jwt.decode(token, SECRET_KEY, algorithms=[ALGORITHM])
JwtDecode(tok) ==
    IF ~tok.wellformed THEN [raised |-> "DecodeError", sub |-> NoneId]
    ELSE IF tok.expired THEN [raised |-> "ExpiredSignatureError", sub |-> NoneId]
    ELSE [raised |-> "none", sub |-> tok.sub]

\* A response model that keeps every field of the document it is built from.
UserResponseUnprojected(doc) == doc

\* UserResponse(**user_doc): the public view of a user document.
UserResponse(doc) ==
    [id |-> doc.id, email |-> doc.email, full_name |-> doc.full_name,
     role |-> doc.role, profile_image |-> doc.profile_image, bio |-> doc.bio]

\* The body of get_current_user's try block: what it raises, if anything.
TryGetCurrentUser(tok, us) ==
    LET dec == JwtDecode(tok)
        user_doc == FindOne(us, "id", dec.sub)
    IN  IF dec.raised # "none" THEN [raised |-> dec.raised, user |-> Nil]
        ELSE IF dec.sub = NoneId THEN [raised |-> "HTTPException", user |-> Nil]
        ELSE IF user_doc = NoDoc THEN [raised |-> "HTTPException", user |-> Nil]
        ELSE [raised |-> "none", user |-> UserResponse(user_doc)]

\* `except jwt.PyJSONError:` is evaluated for every exception that leaves the
\* try block; looking up a name the jwt module does not have raises
\* AttributeError, which no handler catches: the request ends in 500.
ExceptClause(raised) ==
    IF "PyJSONError" \notin JwtExceptionNames THEN 500
    ELSE 401

\* get_current_user: the status it ends the request with (200: it returns),
\* and the user it returns.
get_current_user(tok, us) ==
    LET t == TryGetCurrentUser(tok, us)
    IN  IF t.raised = "none" THEN [status |-> 200, user |-> t.user]
        ELSE [status |-> ExceptClause(t.raised), user |-> Nil]

(***************************************************************************)
(* POST /auth/register                                                     *)
(***************************************************************************)
\* The request bodies (UserCreate) the model registers with. role is any
\* string: the handler does not check it.
UserCreateBodies ==
    {[email |-> "a@x", password |-> "pw1", full_name |-> "Ann", role |-> "teacher"],
     [email |-> "a@x", password |-> "pw2", full_name |-> "Bob", role |-> "student"],
     [email |-> "b@x", password |-> "pw2", full_name |-> "Bob", role |-> "student"],
     [email |-> "b@x", password |-> "pw1", full_name |-> "Eve", role |-> "admin"]}

\* User(email=..., full_name=..., role=...) with a generated id.
User(user_data, id) ==
    [id |-> id, email |-> user_data.email, full_name |-> user_data.full_name,
     role |-> user_data.role, profile_image |-> None, bio |-> None]

\* Teacher(user_id=user.id, full_name=..., email=..., subjects=[], experience_years=0)
Teacher(user, id) ==
    [id |-> id, user_id |-> user.id, full_name |-> user.full_name,
     email |-> user.email, subjects |-> {}, experience_years |-> 0,
     rating |-> 45, total_students |-> 0, bio |-> None, hourly_rate |-> None]

\* Token(access_token=create_access_token({"sub": user.id}), user=UserResponse(...))
Token(user) == [access_token |-> create_access_token(user.id),
                token_type |-> "bearer", user |-> UserResponse(user)]

\* user_dict = user.dict(); user_dict["hashed_password"] = hashed_password
UserDict(user, hashed_password) ==
    [k \in DOMAIN user \cup {"hashed_password"} |->
        IF k = "hashed_password" THEN hashed_password ELSE user[k]]

\* The handler without its duplicate check: no stored user is ever found.
ExistingUserUnchecked(us, user_data) == NoDoc

\* existing_user = await db.users.find_one({"email": user_data.email})
ExistingUser(us, user_data) == FindOne(us, "email", user_data.email)

\* find_one({"email": ...}), the duplicate check, and User(...) up to insert_one.
RegisterFind(r, user_data) ==
    /\ Free(r)
    /\ LET existing_user == ExistingUser(users, user_data)
           q == NewReq("register", user_data)
       IN  IF existing_user # NoDoc
           THEN /\ Answered(q, 400, "Email already registered")
                /\ UNCHANGED nextId
           ELSE /\ nextId.user <= MaxUsers
                /\ Started(r, [q EXCEPT
                        !.pc = "insert_user",
                        !.loc = [user |-> User(user_data, Uuid("user", nextId.user)),
                                 hashed_password |-> get_password_hash(user_data.password)]])
                /\ nextId' = [nextId EXCEPT !.user = @ + 1]
    /\ UNCHANGED <<users, teachers, courses, progress, quizzes,
                 quiz_submissions, community_posts>>

\* db.users.insert_one(user_dict), then Teacher(...) if the role is teacher.
RegisterInsertUser(r) ==
    /\ req[r].op = "register" /\ req[r].pc = "insert_user"
    /\ LET q == req[r]
           user_dict == UserDict(q.loc.user, q.loc.hashed_password)
       IN  /\ users' = Append(users, user_dict)
           /\ IF q.arg.role = "teacher"
              THEN Continued(r, [q EXCEPT !.pc = "insert_teacher"])
              ELSE Ended(r, 200, Token(q.loc.user))
           /\ UNCHANGED nextId
    /\ UNCHANGED <<teachers, courses, progress, quizzes,
                 quiz_submissions, community_posts>>

\* db.teachers.insert_one(teacher.dict()), then the token and the response.
RegisterInsertTeacher(r) ==
    /\ req[r].op = "register" /\ req[r].pc = "insert_teacher"
    /\ LET q == req[r]
       IN  /\ teachers' = Append(teachers, Teacher(q.loc.user, Uuid("teacher", nextId.teacher)))
           /\ nextId' = [nextId EXCEPT !.teacher = @ + 1]
           /\ Ended(r, 200, Token(q.loc.user))
    /\ UNCHANGED <<users, courses, progress, quizzes,
                 quiz_submissions, community_posts>>

(***************************************************************************)
(* POST /auth/login, GET /auth/me                                          *)
(***************************************************************************)
UserLoginBodies ==
    {[email |-> e, password |-> p] : e \in {"a@x", "b@x"}, p \in {"pw1", "pw2"}}

login(r, user_data) ==
    /\ Free(r)
    /\ LET user_doc == FindOne(users, "email", user_data.email)
           q == NewReq("login", user_data)
       IN  IF user_doc = NoDoc
              \/ ~verify_password(user_data.password, user_doc.hashed_password)
           THEN Answered(q, 401, "Invalid credentials")
           ELSE Answered(q, 200, Token(user_doc))
    /\ UNCHANGED <<users, teachers, courses, progress, quizzes, nextId,
                 quiz_submissions, community_posts>>

get_me(r, tok) ==
    /\ Free(r)
    /\ LET auth == get_current_user(tok, users)
           q == NewReq("get_me", [token |-> tok])
       IN  IF auth.status # 200
           THEN Answered(q, auth.status, "auth")
           ELSE Answered(q, 200, auth.user)
    /\ UNCHANGED <<users, teachers, courses, progress, quizzes, nextId,
                 quiz_submissions, community_posts>>

(***************************************************************************)
(* POST /courses                                                           *)
(***************************************************************************)
CourseCreateBodies ==
    {[title |-> "Algebra", description |-> "d1", subject |-> "Math",
      difficulty_level |-> "beginner", duration_hours |-> 10, image |-> None,
      total_lessons |-> 5],
     [title |-> "Python", description |-> "d2", subject |-> "Programming",
      difficulty_level |-> "advanced", duration_hours |-> 40, image |-> None,
      total_lessons |-> 0]}

\* Course(**course_data.dict(), teacher_id=..., teacher_name=...) with a generated id.
Course(course_data, teacher_id, teacher_name, id) ==
    [id |-> id, title |-> course_data.title, description |-> course_data.description,
     teacher_id |-> teacher_id, teacher_name |-> teacher_name,
     subject |-> course_data.subject,
     difficulty_level |-> course_data.difficulty_level,
     duration_hours |-> course_data.duration_hours, image |-> course_data.image,
     enrolled_students |-> <<>>, rating |-> 45,
     total_lessons |-> course_data.total_lessons]

\* The role check of create_course left out.
CreateCourseOpenToAll(current_user) == FALSE

\* if current_user.role != "teacher": raise HTTPException(status_code=403, ...)
CreateCourseForbidden(current_user) == current_user.role # "teacher"

\* get_current_user, the role check and Course(...), up to insert_one.
CreateCourseAuth(r, tok, course_data) ==
    /\ Free(r)
    /\ LET auth == get_current_user(tok, users)
           q == NewReq("create_course", [token |-> tok, course_data |-> course_data])
       IN  IF auth.status # 200
           THEN /\ Answered(q, auth.status, "auth")
                /\ UNCHANGED nextId
           ELSE IF CreateCourseForbidden(auth.user)
           THEN /\ Answered([q EXCEPT !.loc = [current_user |-> auth.user]],
                            403, "Only teachers can create courses")
                /\ UNCHANGED nextId
           ELSE /\ nextId.course <= MaxCourses
                /\ Started(r, [q EXCEPT
                        !.pc = "insert_course",
                        !.loc = [current_user |-> auth.user,
                                 course |-> Course(course_data, auth.user.id,
                                                   auth.user.full_name,
                                                   Uuid("course", nextId.course))]])
                /\ nextId' = [nextId EXCEPT !.course = @ + 1]
    /\ UNCHANGED <<users, teachers, courses, progress, quizzes,
                 quiz_submissions, community_posts>>

\* db.courses.insert_one(course.dict()); return course
CreateCourseInsert(r) ==
    /\ req[r].op = "create_course" /\ req[r].pc = "insert_course"
    /\ courses' = Append(courses, req[r].loc.course)
    /\ Ended(r, 200, req[r].loc.course)
    /\ UNCHANGED <<users, teachers, progress, quizzes, nextId,
                 quiz_submissions, community_posts>>

(***************************************************************************)
(* POST /courses/{course_id}/enroll                                        *)
(***************************************************************************)
\* The course ids a request may name: every id create_course can generate and
\* one that no course has.
CourseIds == {Uuid("course", n) : n \in 1..MaxCourses} \cup {Uuid("course", 0)}

\* A Progress constructed half done instead of with the model's defaults.
ProgressHalfDone(student_id, course_id, course_title, id) ==
    [id |-> id, student_id |-> student_id, course_id |-> course_id,
     course_title |-> course_title, completion_percentage |-> 50,
     time_spent_hours |-> 0, quiz_scores |-> <<>>]

\* Progress(student_id=..., course_id=..., course_title=...) with a generated id.
Progress(student_id, course_id, course_title, id) ==
    [id |-> id, student_id |-> student_id, course_id |-> course_id,
     course_title |-> course_title, completion_percentage |-> 0,
     time_spent_hours |-> 0, quiz_scores |-> <<>>]

\* The role check of enroll_in_course refusing teachers instead of admitting
\* students only.
EnrollForbiddenToTeachers(current_user) == current_user.role = "teacher"

\* if current_user.role != "student": raise HTTPException(status_code=403, ...)
EnrollForbidden(current_user) == current_user.role # "student"

\* {"$push": {field: x}} on an array: the element is added even if present.
Push(array, x) == Append(array, x)

\* {"$set": {field: [x]}}: the array replaced by the one element.
SetToOne(array, x) == <<x>>

\* {"$addToSet": {field: x}} on an array.
AddToSet(array, x) ==
    IF \E i \in 1..Len(array) : array[i] = x THEN array ELSE Append(array, x)

\* Enrollments in flight that have not yet constructed their Progress.
PendingEnrolls ==
    Cardinality({s \in Reqs : /\ req[s].op = "enroll"
                              /\ req[s].pc \in {"update_course", "find_course"}})

\* get_current_user and the role check, up to update_one.
EnrollAuth(r, tok, course_id) ==
    /\ Free(r)
    /\ LET auth == get_current_user(tok, users)
           q == NewReq("enroll", [token |-> tok, course_id |-> course_id])
       IN  IF auth.status # 200
           THEN Answered(q, auth.status, "auth")
           ELSE IF EnrollForbidden(auth.user)
           THEN Answered([q EXCEPT !.loc = [current_user |-> auth.user]],
                         403, "Only students can enroll in courses")
           ELSE /\ nextId.progress + PendingEnrolls <= MaxEnrolls
                /\ Started(r, [q EXCEPT
                        !.pc = "update_course",
                        !.loc = [current_user |-> auth.user, matched |-> FALSE,
                                 progress |-> Nil]])
    /\ UNCHANGED <<users, teachers, courses, progress, quizzes, nextId,
                 quiz_submissions, community_posts>>

\* db.courses.update_one({"id": course_id}, {"$addToSet": {"enrolled_students": id}})
\* loc.matched is the result's matched_count, which the handler does not read.
EnrollUpdate(r) ==
    /\ req[r].op = "enroll" /\ req[r].pc = "update_course"
    /\ LET q == req[r]
           i == FirstIndex(courses, "id", q.arg.course_id)
       IN  /\ courses' =
                IF i = 0 THEN courses
                ELSE [courses EXCEPT ![i].enrolled_students =
                                        AddToSet(@, q.loc.current_user.id)]
           /\ Continued(r, [q EXCEPT !.pc = "find_course", !.loc.matched = (i # 0)])
    /\ UNCHANGED <<users, teachers, progress, quizzes, nextId,
                 quiz_submissions, community_posts>>

\* course = await db.courses.find_one({"id": course_id}); Progress(...) if found.
EnrollFind(r) ==
    /\ req[r].op = "enroll" /\ req[r].pc = "find_course"
    /\ LET q == req[r]
           course == FindOne(courses, "id", q.arg.course_id)
       IN  IF course # NoDoc
           THEN /\ Continued(r, [q EXCEPT
                        !.pc = "insert_progress",
                        !.loc.progress = Progress(q.loc.current_user.id, q.arg.course_id,
                                                  course.title,
                                                  Uuid("progress", nextId.progress))])
                /\ nextId' = [nextId EXCEPT !.progress = @ + 1]
           ELSE /\ Ended(r, 200, "Successfully enrolled in course")
                /\ UNCHANGED nextId
    /\ UNCHANGED <<users, teachers, courses, progress, quizzes,
                 quiz_submissions, community_posts>>

\* await db.progress.insert_one(progress.dict()); return the message.
EnrollInsert(r) ==
    /\ req[r].op = "enroll" /\ req[r].pc = "insert_progress"
    /\ progress' = Append(progress, req[r].loc.progress)
    /\ Ended(r, 200, "Successfully enrolled in course")
    /\ UNCHANGED <<users, teachers, courses, quizzes, nextId,
                 quiz_submissions, community_posts>>

(***************************************************************************)
(* PUT /teachers/profile                                                   *)
(***************************************************************************)
\* TeacherCreate bodies; bio and hourly_rate are None when the request omits them.
TeacherCreateBodies ==
    {[subjects |-> {"Math"}, experience_years |-> 3, bio |-> "bio1", hourly_rate |-> 50],
     [subjects |-> {"Art"}, experience_years |-> 1, bio |-> None, hourly_rate |-> None]}

\* if current_user.role != "teacher": raise HTTPException(status_code=403, ...)
UpdateProfileForbidden(current_user) == current_user.role # "teacher"

\* {"$set": profile_data.dict()} on a teacher document.
SetProfile(doc, profile_data) ==
    [k \in DOMAIN doc |-> IF k \in DOMAIN profile_data THEN profile_data[k] ELSE doc[k]]

\* get_current_user and the role check, up to update_one.
UpdateTeacherProfileAuth(r, tok, profile_data) ==
    /\ Free(r)
    /\ LET auth == get_current_user(tok, users)
           q == NewReq("update_teacher_profile",
                       [token |-> tok, profile_data |-> profile_data])
       IN  IF auth.status # 200
           THEN Answered(q, auth.status, "auth")
           ELSE IF UpdateProfileForbidden(auth.user)
           THEN Answered([q EXCEPT !.loc = [current_user |-> auth.user]],
                         403, "Only teachers can update profile")
           ELSE Started(r, [q EXCEPT !.pc = "update_teacher",
                                     !.loc = [current_user |-> auth.user]])
    /\ UNCHANGED <<users, teachers, courses, progress, quizzes, nextId,
                 quiz_submissions, community_posts>>

\* db.teachers.update_one({"user_id": current_user.id}, {"$set": profile_data.dict()})
UpdateTeacherProfileUpdate(r) ==
    /\ req[r].op = "update_teacher_profile" /\ req[r].pc = "update_teacher"
    /\ LET q == req[r]
           i == FirstIndex(teachers, "user_id", q.loc.current_user.id)
       IN  /\ teachers' =
                IF i = 0 THEN teachers
                ELSE [teachers EXCEPT ![i] = SetProfile(@, q.arg.profile_data)]
           /\ Ended(r, 200, "Profile updated successfully")
    /\ UNCHANGED <<users, courses, progress, quizzes, nextId,
                 quiz_submissions, community_posts>>

(***************************************************************************)
(* PUT /progress/{progress_id}                                             *)
(***************************************************************************)
ProgressIds == {Uuid("progress", n) : n \in 0..MaxEnrolls}

update_progress(r, progress_id, completion_percentage, time_spent_hours) ==
    /\ Free(r)
    /\ LET i == FirstIndex(progress, "id", progress_id)
           q == NewReq("update_progress",
                       [progress_id |-> progress_id,
                        completion_percentage |-> completion_percentage,
                        time_spent_hours |-> time_spent_hours])
       IN  /\ progress' =
                IF i = 0 THEN progress
                ELSE [progress EXCEPT
                        ![i].completion_percentage = completion_percentage,
                        ![i].time_spent_hours = time_spent_hours]
           /\ Answered(q, 200, "Progress updated successfully")
    /\ UNCHANGED <<users, teachers, courses, quizzes, nextId,
                 quiz_submissions, community_posts>>

(***************************************************************************)
(* GET /quiz/{course_id}                                                   *)
(***************************************************************************)
\* generate_quiz_questions: the same two questions whatever the arguments,
\* each QuizQuestion with a generated id (the n-th quiz's are 2n-1 and 2n).
generate_quiz_questions(course_id, topic, n) ==
    <<[id |-> Uuid("question", 2 * n - 1), question |-> "purpose of OOP",
       options |-> <<"faster", "reusable objects", "less memory", "shorter">>,
       correct_answer |-> 1, explanation |-> "e1"],
      [id |-> Uuid("question", 2 * n), question |-> "hiding implementation",
       options |-> <<"Inheritance", "Polymorphism", "Encapsulation", "Abstraction">>,
       correct_answer |-> 2, explanation |-> "e2"]>>

\* Quiz(course_id=..., title=..., questions=...) with a generated id.
Quiz(course_id, title, questions, id) ==
    [id |-> id, course_id |-> course_id, title |-> title, questions |-> questions]

\* `return Quiz(**quiz)`: ** unpacks a mapping. The document find_one returned
\* is a dict; the Quiz model the handler built itself is not a mapping, and
\* unpacking it raises TypeError, which ends the request in 500.
ReturnQuiz(quiz) ==
    IF quiz.kind = "dict" THEN [status |-> 200, body |-> quiz.value]
    ELSE [status |-> 500, body |-> "TypeError"]

\* An insert that keeps one quiz per course: nothing is added when the course
\* already has one.
InsertQuizOncePerCourse(qs, quiz_dict) ==
    IF \E i \in 1..Len(qs) : qs[i].course_id = quiz_dict.course_id THEN qs
    ELSE Append(qs, quiz_dict)

\* await db.quizzes.insert_one(quiz.dict())
InsertQuiz(qs, quiz_dict) == Append(qs, quiz_dict)

\* find_one({"course_id": ...}); the stored quiz is returned, or a new one built.
QuizFind(r, course_id) ==
    /\ Free(r)
    /\ LET found == FindOne(quizzes, "course_id", course_id)
           q == NewReq("get_course_quiz", [course_id |-> course_id])
       IN  IF found # NoDoc
           THEN /\ LET quiz == [kind |-> "dict", value |-> found]
                       ret == ReturnQuiz(quiz)
                   IN  Answered([q EXCEPT !.loc = [quiz |-> quiz]], ret.status, ret.body)
                /\ UNCHANGED nextId
           ELSE /\ nextId.quiz <= MaxQuizzes
                /\ LET questions == generate_quiz_questions(course_id, "General", nextId.quiz)
                       quiz == [kind |-> "model",
                                value |-> Quiz(course_id, "Course Assessment", questions,
                                               Uuid("quiz", nextId.quiz))]
                   IN  Started(r, [q EXCEPT !.pc = "insert_quiz", !.loc = [quiz |-> quiz]])
                /\ nextId' = [nextId EXCEPT !.quiz = @ + 1]
    /\ UNCHANGED <<users, teachers, courses, progress, quizzes,
                 quiz_submissions, community_posts>>

\* insert_one(quiz.dict()), then `return Quiz(**quiz)` on the model.
QuizInsert(r) ==
    /\ req[r].op = "get_course_quiz" /\ req[r].pc = "insert_quiz"
    /\ LET q == req[r]
           ret == ReturnQuiz(q.loc.quiz)
       IN  /\ quizzes' = InsertQuiz(quizzes, q.loc.quiz.value)
           /\ Ended(r, ret.status, ret.body)
    /\ UNCHANGED <<users, teachers, courses, progress, nextId,
                 quiz_submissions, community_posts>>

(***************************************************************************)
(* POST /quiz/submit                                                       *)
(***************************************************************************)
\* The answer lists of the model's submissions: all right, all wrong, shorter
\* and longer than the two questions of a generated quiz.
AnswerLists == {<<1, 2>>, <<0, 0>>, <<1>>, <<1, 2, 0>>}

\* What a client puts into student_id and score: its own id or another one,
\* and a score or no score field at all.
ClientFields ==
    {[student_id |-> Uuid("user", 2), score |-> 100],
     [student_id |-> Uuid("user", 3), score |-> 0],
     [student_id |-> Uuid("user", 2)]}

\* A request body sent as QuizSubmission: a JSON object with the client's
\* fields c, with or without the score field.
QuizSubmissionBody(quiz_id, answers, c) ==
    [k \in {"quiz_id", "answers"} \cup DOMAIN c |->
        IF k = "quiz_id" THEN quiz_id ELSE IF k = "answers" THEN answers ELSE c[k]]

\* The bodies of the model: every answer list for the first quiz, one answer
\* list with each of the client's fields, and one for a quiz that is not stored.
QuizSubmissionBodies ==
    {QuizSubmissionBody(Uuid("quiz", 1), answers, [student_id |-> Uuid("user", 2),
                                                  score |-> 100]) :
        answers \in AnswerLists}
    \cup {QuizSubmissionBody(Uuid("quiz", 1), <<1>>, c) : c \in ClientFields}
    \cup {QuizSubmissionBody(Uuid("quiz", 0), <<1, 2>>, c) : c \in ClientFields}

\* QuizSubmission has no default for quiz_id, student_id, answers and score:
\* pydantic accepts a body only if it carries all four.
QuizSubmissionValid(body) ==
    {"quiz_id", "student_id", "answers", "score"} \subseteq DOMAIN body

\* A loop that counts every submitted answer within range as correct.
CorrectAnswersUncompared(questions, answers) ==
    Cardinality({i \in 1..Len(answers) : i <= Len(questions)})

\* The loop of submit_quiz: the positions i of the submitted answers with
\* i < len(questions) and answer == questions[i]["correct_answer"]
\* (positions count from 1 here, from 0 in the code).
CorrectAnswers(questions, answers) ==
    Cardinality({i \in 1..Len(answers) :
                    i <= Len(questions) /\ answers[i] = questions[i].correct_answer})

\* score = (correct_answers / total_questions) * 100, for total_questions > 0.
\* The quotients the model meets (halves) are exact in floating point.
Score(correct_answers, total_questions) == (correct_answers * 100) \div total_questions

\* The submission stored as the client sent it.
SubmissionDictAsSent(submission, score, current_user) ==
    [quiz_id |-> submission.quiz_id, student_id |-> submission.student_id,
     answers |-> submission.answers, score |-> submission.score]

\* submission.score = score; submission.student_id = current_user.id; .dict()
SubmissionDict(submission, score, current_user) ==
    [quiz_id |-> submission.quiz_id, student_id |-> current_user.id,
     answers |-> submission.answers, score |-> score]

\* Submissions in flight that have not yet been stored.
PendingSubmissions ==
    Cardinality({s \in Reqs : req[s].op = "submit_quiz" /\ InFlight(req[s])})

\* get_current_user, then the validation of the body, up to find_one.
SubmitQuizAuth(r, tok, submission) ==
    /\ Free(r)
    /\ LET auth == get_current_user(tok, users)
           q == NewReq("submit_quiz", [token |-> tok, submission |-> submission])
       IN  IF auth.status # 200
           THEN Answered(q, auth.status, "auth")
           ELSE IF ~QuizSubmissionValid(submission)
           THEN Answered([q EXCEPT !.loc = [current_user |-> auth.user]],
                         422, "field required")
           ELSE /\ Len(quiz_submissions) + PendingSubmissions < MaxSubmissions
                /\ Started(r, [q EXCEPT !.pc = "find_quiz",
                                        !.loc = [current_user |-> auth.user]])
    /\ UNCHANGED <<users, teachers, courses, progress, quizzes, nextId,
                   quiz_submissions, community_posts>>

\* quiz = await db.quizzes.find_one({"id": submission.quiz_id}), then the score.
SubmitQuizFind(r) ==
    /\ req[r].op = "submit_quiz" /\ req[r].pc = "find_quiz"
    /\ LET q == req[r]
           quiz == FindOne(quizzes, "id", q.arg.submission.quiz_id)
       IN  IF quiz = NoDoc
           THEN Ended(r, 404, "Quiz not found")
           ELSE LET correct_answers == CorrectAnswers(quiz.questions, q.arg.submission.answers)
                    total_questions == Len(quiz.questions)
                IN  IF total_questions = 0
                    THEN Ended(r, 500, "ZeroDivisionError")
                    ELSE Continued(r, [q EXCEPT
                            !.pc = "insert_submission",
                            !.loc = [current_user |-> q.loc.current_user,
                                     quiz |-> quiz,
                                     correct_answers |-> correct_answers,
                                     total_questions |-> total_questions,
                                     score |-> Score(correct_answers, total_questions)]])
    /\ UNCHANGED <<users, teachers, courses, progress, quizzes, nextId,
                   quiz_submissions, community_posts>>

\* await db.quiz_submissions.insert_one(submission.dict()), then the result.
SubmitQuizInsert(r) ==
    /\ req[r].op = "submit_quiz" /\ req[r].pc = "insert_submission"
    /\ LET q == req[r]
       IN  /\ quiz_submissions' =
                Append(quiz_submissions,
                       SubmissionDict(q.arg.submission, q.loc.score, q.loc.current_user))
           /\ Ended(r, 200, [score |-> q.loc.score,
                             correct_answers |-> q.loc.correct_answers,
                             total_questions |-> q.loc.total_questions,
                             percentage |-> q.loc.score])
    /\ UNCHANGED <<users, teachers, courses, progress, quizzes, nextId, community_posts>>

(***************************************************************************)
(* GET /courses                                                            *)
(***************************************************************************)
\* The length passed to to_list in get_courses.
CoursesPageSize == 50

\* The subject and difficulty query parameters: left out, empty, or a value.
SubjectParams == {None, "", "Math", "Programming"}

DifficultyParams == {None, "beginner", "intermediate"}

\* `if subject:` and `if difficulty:`: None and the empty string add nothing
\* to filter_query.
Truthy(param) == param # None /\ param # ""

\* db.courses.find(filter_query): the documents matching every key of the query.
FindCourses(coll, subject, difficulty) ==
    LET Matches(doc) == /\ Truthy(subject) => doc.subject = subject
                        /\ Truthy(difficulty) => doc.difficulty_level = difficulty
    IN  SelectSeq(coll, Matches)

\* Course(**course): the fields of the model, image defaulting to None.
CourseFromDoc(doc) ==
    [k \in DOMAIN doc \cup {"image"} |-> IF k \in DOMAIN doc THEN doc[k] ELSE None]

\* A listing that returns every matching document.
CourseListingUncapped(coll, subject, difficulty) ==
    LET found == FindCourses(coll, subject, difficulty)
    IN  [i \in 1..Len(found) |-> CourseFromDoc(found[i])]

\* find(filter_query).to_list(50), then [Course(**course) for course in courses]
CourseListing(coll, subject, difficulty) ==
    LET found == ToList(FindCourses(coll, subject, difficulty), CoursesPageSize)
    IN  [i \in 1..Len(found) |-> CourseFromDoc(found[i])]

get_courses(r, subject, difficulty) ==
    /\ Free(r)
    /\ Answered(NewReq("get_courses", [subject |-> subject, difficulty |-> difficulty]),
                200, CourseListing(courses, subject, difficulty))
    /\ UNCHANGED <<users, teachers, courses, progress, quizzes, nextId,
                   quiz_submissions, community_posts>>

(***************************************************************************)
(* GET /teachers                                                           *)
(***************************************************************************)
\* The length passed to to_list in get_teachers.
TeachersPageSize == 50

\* db.teachers.find(filter_query): {"subjects": {"$in": [subject]}} when a
\* subject is given, every document otherwise.
FindTeachers(coll, subject) ==
    LET Matches(doc) == Truthy(subject) => subject \in doc.subjects
    IN  SelectSeq(coll, Matches)

\* Teacher(**teacher): the fields of the model, profile_image defaulting to None.
TeacherFromDoc(doc) ==
    [k \in DOMAIN doc \cup {"profile_image"} |-> IF k \in DOMAIN doc THEN doc[k] ELSE None]

get_teachers(r, subject) ==
    /\ Free(r)
    /\ LET found == ToList(FindTeachers(teachers, subject), TeachersPageSize)
       IN  Answered(NewReq("get_teachers", [subject |-> subject]), 200,
                    [i \in 1..Len(found) |-> TeacherFromDoc(found[i])])
    /\ UNCHANGED <<users, teachers, courses, progress, quizzes, nextId,
                   quiz_submissions, community_posts>>

(***************************************************************************)
(* GET /dashboard/student/{student_id}, GET /dashboard/teacher/{teacher_id} *)
(***************************************************************************)
\* The lengths passed to to_list and limit in the dashboards.
StudentCoursesPageSize == 10
StudentProgressPageSize == 10
RecentPostsLimit == 5
TeacherCoursesPageSize == 20
TeacherProgressPageSize == 100

\* get_learning_path and analyze_progress: fixed mock values.
get_learning_path(student_id) ==
    [current_level |-> "Intermediate", estimated_completion |-> "6 weeks"]

analyze_progress(student_id) ==
    [overall_performance |-> "Good",
     next_milestone |-> "Complete advanced algorithms course"]

\* The orders sort("created_at", -1) may return the posts in: created_at is
\* stored with millisecond precision, and posts made within one millisecond
\* (those of a seeding are) come back in no defined order.
SortedByCreatedAt(posts) ==
    {[i \in 1..Len(posts) |-> posts[f[i]]] : f \in Permutations(1..Len(posts))}

\* Whether FastAPI can encode the documents of a response: a document read
\* without the projection {"_id": 0} carries its ObjectId, which the encoder
\* cannot serialise.
Encodable(raw_docs) == Len(raw_docs) = 0

\* enrolled_courses = await db.courses.find({"enrolled_students": student_id},
\* {"_id": 0}).to_list(10)
StudentDashboardCourses(r, student_id) ==
    /\ Free(r)
    /\ LET Enrolled(doc) == \E i \in 1..Len(doc.enrolled_students) :
                                doc.enrolled_students[i] = student_id
       IN  Started(r, [NewReq("get_student_dashboard", [student_id |-> student_id])
                        EXCEPT !.pc = "find_progress",
                               !.loc = [learning_path |-> get_learning_path(student_id),
                                        enrolled_courses |->
                                            ToList(SelectSeq(courses, Enrolled),
                                                   StudentCoursesPageSize),
                                        progress_docs |-> <<>>]])
    /\ UNCHANGED <<users, teachers, courses, progress, quizzes, nextId,
                   quiz_submissions, community_posts>>

\* progress_docs = await db.progress.find({"student_id": student_id}, {"_id": 0}).to_list(10)
StudentDashboardProgress(r) ==
    /\ req[r].op = "get_student_dashboard" /\ req[r].pc = "find_progress"
    /\ Continued(r, [req[r] EXCEPT
            !.pc = "find_posts",
            !.loc.progress_docs = ToList(Find(progress, "student_id", req[r].arg.student_id),
                                         StudentProgressPageSize)])
    /\ UNCHANGED <<users, teachers, courses, progress, quizzes, nextId,
                   quiz_submissions, community_posts>>

\* recent_posts = await db.community_posts.find({}, {"_id": 0})
\*     .sort("created_at", -1).limit(5).to_list(5), then the composed object.
StudentDashboardPosts(r) ==
    /\ req[r].op = "get_student_dashboard" /\ req[r].pc = "find_posts"
    /\ \E sorted \in SortedByCreatedAt(community_posts) :
            Ended(r, 200, [learning_path |-> req[r].loc.learning_path,
                           enrolled_courses |-> req[r].loc.enrolled_courses,
                           progress |-> req[r].loc.progress_docs,
                           recent_posts |-> ToList(sorted, RecentPostsLimit),
                           ai_insights |-> analyze_progress(req[r].arg.student_id)])
    /\ UNCHANGED <<users, teachers, courses, progress, quizzes, nextId,
                   quiz_submissions, community_posts>>

\* teacher_courses = await db.courses.find({"teacher_id": teacher_id}).to_list(20)
TeacherDashboardCourses(r, teacher_id) ==
    /\ Free(r)
    /\ Started(r, [NewReq("get_teacher_dashboard", [teacher_id |-> teacher_id])
                    EXCEPT !.pc = "find_progress",
                           !.loc = [teacher_courses |->
                                        ToList(Find(courses, "teacher_id", teacher_id),
                                               TeacherCoursesPageSize)]])
    /\ UNCHANGED <<users, teachers, courses, progress, quizzes, nextId,
                   quiz_submissions, community_posts>>

\* student_progress = await db.progress.find({"course_id": {"$in": course_ids}})
\*     .to_list(100), the analytics, and the response with the documents as read.
TeacherDashboardProgress(r) ==
    /\ req[r].op = "get_teacher_dashboard" /\ req[r].pc = "find_progress"
    /\ LET teacher_courses == req[r].loc.teacher_courses
           course_ids == {teacher_courses[i].id : i \in 1..Len(teacher_courses)}
           InCourses(doc) == doc.course_id \in course_ids
           student_progress == ToList(SelectSeq(progress, InCourses),
                                      TeacherProgressPageSize)
           analytics ==
                [total_students |->
                    Cardinality({student_progress[i].student_id :
                                    i \in 1..Len(student_progress)}),
                 total_courses |-> Len(teacher_courses)]
       IN  IF Encodable(teacher_courses \o student_progress)
           THEN Ended(r, 200, [courses |-> teacher_courses,
                               student_progress |-> student_progress,
                               analytics |-> analytics])
           ELSE Ended(r, 500, "ObjectId")
    /\ UNCHANGED <<users, teachers, courses, progress, quizzes, nextId,
                   quiz_submissions, community_posts>>

(***************************************************************************)
(* POST /community/posts                                                   *)
(***************************************************************************)
PostCreateBodies ==
    {[title |-> "Study group", content |-> "c3", category |-> "discussion"]}

\* CommunityPost(**post_data.dict(), author_id=..., author_name=...) with a
\* generated id.
CommunityPost(post_data, author_id, author_name, id) ==
    [id |-> id, author_id |-> author_id, author_name |-> author_name,
     title |-> post_data.title, content |-> post_data.content,
     category |-> post_data.category, likes |-> 0, replies |-> <<>>]

\* get_current_user and CommunityPost(...), up to insert_one.
CreatePostAuth(r, tok, post_data) ==
    /\ Free(r)
    /\ LET auth == get_current_user(tok, users)
           q == NewReq("create_community_post", [token |-> tok, post_data |-> post_data])
       IN  IF auth.status # 200
           THEN /\ Answered(q, auth.status, "auth")
                /\ UNCHANGED nextId
           ELSE /\ nextId.post <= MaxPosts
                /\ Started(r, [q EXCEPT
                        !.pc = "insert_post",
                        !.loc = [current_user |-> auth.user,
                                 post |-> CommunityPost(post_data, auth.user.id,
                                                        auth.user.full_name,
                                                        Uuid("post", nextId.post))]])
                /\ nextId' = [nextId EXCEPT !.post = @ + 1]
    /\ UNCHANGED <<users, teachers, courses, progress, quizzes,
                   quiz_submissions, community_posts>>

\* await db.community_posts.insert_one(post.dict()); return post
CreatePostInsert(r) ==
    /\ req[r].op = "create_community_post" /\ req[r].pc = "insert_post"
    /\ community_posts' = Append(community_posts, req[r].loc.post)
    /\ Ended(r, 200, req[r].loc.post)
    /\ UNCHANGED <<users, teachers, courses, progress, quizzes, nextId,
                   quiz_submissions>>

(***************************************************************************)
(* POST /seed-data                                                         *)
(***************************************************************************)
\* The literal ids of the sample data ("course_1", "teacher_2", ...): strings
\* that are no uuid4.
SampleId(kind, n) == <<kind, n>>

sample_courses ==
    <<[id |-> SampleId("course_", 1), title |-> "Introduction to Python Programming",
       description |-> "Learn Python from scratch with hands-on projects",
       teacher_id |-> SampleId("teacher_", 1), teacher_name |-> "Dr. Sarah Chen",
       subject |-> "Programming", difficulty_level |-> "beginner",
       duration_hours |-> 40, total_lessons |-> 20, rating |-> 48,
       enrolled_students |-> <<SampleId("student_", 1), SampleId("student_", 2)>>],
      [id |-> SampleId("course_", 2), title |-> "Data Structures & Algorithms",
       description |-> "Master fundamental CS concepts",
       teacher_id |-> SampleId("teacher_", 2), teacher_name |-> "Prof. Michael Rodriguez",
       subject |-> "Computer Science", difficulty_level |-> "intermediate",
       duration_hours |-> 60, total_lessons |-> 30, rating |-> 47,
       enrolled_students |-> <<SampleId("student_", 1)>>],
      [id |-> SampleId("course_", 3), title |-> "Web Development with React",
       description |-> "Build modern web applications",
       teacher_id |-> SampleId("teacher_", 1), teacher_name |-> "Dr. Sarah Chen",
       subject |-> "Web Development", difficulty_level |-> "intermediate",
       duration_hours |-> 50, total_lessons |-> 25, rating |-> 49,
       enrolled_students |-> <<SampleId("student_", 2)>>]>>

sample_teachers ==
    <<[id |-> SampleId("teacher_", 1), user_id |-> SampleId("teacher_", 1),
       full_name |-> "Dr. Sarah Chen", email |-> "sarah.chen@novazone.edu",
       subjects |-> {"Programming", "Web Development", "Data Science"},
       experience_years |-> 12, rating |-> 49, total_students |-> 150,
       bio |-> "Passionate educator", hourly_rate |-> 75],
      [id |-> SampleId("teacher_", 2), user_id |-> SampleId("teacher_", 2),
       full_name |-> "Prof. Michael Rodriguez", email |-> "michael.rodriguez@novazone.edu",
       subjects |-> {"Computer Science", "Algorithms", "Mathematics"},
       experience_years |-> 15, rating |-> 47, total_students |-> 200,
       bio |-> "Computer Science professor", hourly_rate |-> 80]>>

sample_posts ==
    <<[id |-> SampleId("post_", 1), author_id |-> SampleId("student_", 1),
       author_name |-> "Alex Johnson", title |-> "Best practices for Python coding?",
       content |-> "c1", category |-> "question", likes |-> 5, replies |-> <<>>],
      [id |-> SampleId("post_", 2), author_id |-> SampleId("teacher_", 1),
       author_name |-> "Dr. Sarah Chen", title |-> "New React Course Available!",
       content |-> "c2", category |-> "announcement", likes |-> 12, replies |-> <<>>]>>

\* A delete_many that removes nothing.
DeleteNone(coll) == coll

\* delete_many({}): nothing is left.
DeleteMany(coll) == <<>>

\* insert_many(docs): the documents are appended in order; no index makes
\* their ids unique.
InsertMany(coll, docs) == coll \o docs

\* seed_database is in flight in slot r at position pc.
Seeding(r, pc) == req[r].op = "seed_database" /\ req[r].pc = pc

\* The sample data is built, then await db.courses.delete_many({}).
seed_database(r) ==
    /\ Free(r)
    /\ courses' = DeleteMany(courses)
    /\ Started(r, [NewReq("seed_database", Nil) EXCEPT !.pc = "insert_courses"])
    /\ UNCHANGED <<users, teachers, progress, quizzes, nextId,
                   quiz_submissions, community_posts>>

\* await db.courses.insert_many(sample_courses)
SeedInsertCourses(r) ==
    /\ Seeding(r, "insert_courses")
    /\ courses' = InsertMany(courses, sample_courses)
    /\ Continued(r, [req[r] EXCEPT !.pc = "delete_teachers"])
    /\ UNCHANGED <<users, teachers, progress, quizzes, nextId,
                   quiz_submissions, community_posts>>

\* await db.teachers.delete_many({})
SeedDeleteTeachers(r) ==
    /\ Seeding(r, "delete_teachers")
    /\ teachers' = DeleteMany(teachers)
    /\ Continued(r, [req[r] EXCEPT !.pc = "insert_teachers"])
    /\ UNCHANGED <<users, courses, progress, quizzes, nextId,
                   quiz_submissions, community_posts>>

\* await db.teachers.insert_many(sample_teachers)
SeedInsertTeachers(r) ==
    /\ Seeding(r, "insert_teachers")
    /\ teachers' = InsertMany(teachers, sample_teachers)
    /\ Continued(r, [req[r] EXCEPT !.pc = "delete_posts"])
    /\ UNCHANGED <<users, courses, progress, quizzes, nextId,
                   quiz_submissions, community_posts>>

\* await db.community_posts.delete_many({})
SeedDeletePosts(r) ==
    /\ Seeding(r, "delete_posts")
    /\ community_posts' = DeleteMany(community_posts)
    /\ Continued(r, [req[r] EXCEPT !.pc = "insert_posts"])
    /\ UNCHANGED <<users, teachers, courses, progress, quizzes, nextId,
                   quiz_submissions>>

\* await db.community_posts.insert_many(sample_posts), then the message.
SeedInsertPosts(r) ==
    /\ Seeding(r, "insert_posts")
    /\ community_posts' = InsertMany(community_posts, sample_posts)
    /\ Ended(r, 200, "Database seeded with sample data successfully")
    /\ UNCHANGED <<users, teachers, courses, progress, quizzes, nextId,
                   quiz_submissions>>

(***************************************************************************)
(* Specifications.                                                         *)
(***************************************************************************)
Init ==
    /\ users = <<>>
    /\ teachers = <<>>
    /\ courses = <<>>
    /\ progress = <<>>
    /\ quizzes = <<>>
    /\ quiz_submissions = <<>>
    /\ community_posts = <<>>
    /\ nextId = [user |-> 1, teacher |-> 1, course |-> 1, progress |-> 1, quiz |-> 1, post |-> 1]
    /\ req = [r \in Reqs |-> Idle]
    /\ last = Idle

\* Accounts: registration, login and the current-user route.
NextAuth ==
    \E r \in Reqs :
        \/ \E user_data \in UserCreateBodies : RegisterFind(r, user_data)
        \/ RegisterInsertUser(r)
        \/ RegisterInsertTeacher(r)
        \/ \E user_data \in UserLoginBodies : login(r, user_data)
        \/ \E tok \in PresentedTokens : get_me(r, tok)

SpecAuth == Init /\ [][NextAuth]_vars

\* The n-th of a sequence of accounts as register stores it, and the state of
\* the request that registered it when it ended.
Account(bodies, n) == User(bodies[n], Uuid("user", n))

Registered(bodies, n) ==
    Respond([NewReq("register", bodies[n]) EXCEPT
                !.loc = [user |-> Account(bodies, n),
                         hashed_password |-> get_password_hash(bodies[n].password)]],
            200, Token(Account(bodies, n)))

\* The accounts of the course specification: a teacher, a student and a user
\* whose role is neither.
CourseActors ==
    <<[email |-> "a@x", password |-> "pw1", full_name |-> "Ann", role |-> "teacher"],
      [email |-> "b@x", password |-> "pw2", full_name |-> "Bob", role |-> "student"],
      [email |-> "c@x", password |-> "pw1", full_name |-> "Eve", role |-> "admin"]>>

\* The state after the three accounts registered one after the other.
InitCourse ==
    /\ users = [n \in 1..3 |->
                  UserDict(Account(CourseActors, n),
                           get_password_hash(CourseActors[n].password))]
    /\ teachers = <<Teacher(Account(CourseActors, 1), Uuid("teacher", 1))>>
    /\ courses = <<>>
    /\ progress = <<>>
    /\ quizzes = <<>>
    /\ quiz_submissions = <<>>
    /\ community_posts = <<>>
    /\ nextId = [user |-> 4, teacher |-> 2, course |-> 1, progress |-> 1, quiz |-> 1, post |-> 1]
    /\ req = [r \in Reqs |-> Idle]
    /\ last = Registered(CourseActors, 3)

\* The token login issues to the n-th stored user.
LoginToken(n) == create_access_token(users[n].id)

\* The tokens of the course specification: those of the stored users, and one
\* of every kind get_current_user refuses.
CourseTokens ==
    {LoginToken(n) : n \in 1..Len(users)} \cup
    {MalformedToken, ExpiredToken, create_access_token(NoneId),
     create_access_token(UnknownSub)}

\* Role-gated routes: courses, enrollment and the teacher profile, with every
\* kind of bearer token.
NextCourse ==
    \E r \in {1} :
        \/ \E tok \in CourseTokens : get_me(r, tok)
        \/ \E tok \in CourseTokens, course_data \in CourseCreateBodies :
                CreateCourseAuth(r, tok, course_data)
        \/ CreateCourseInsert(r)
        \/ \E tok \in CourseTokens, course_id \in CourseIds :
                EnrollAuth(r, tok, course_id)
        \/ EnrollUpdate(r)
        \/ EnrollFind(r)
        \/ EnrollInsert(r)
        \/ \E tok \in CourseTokens, profile_data \in TeacherCreateBodies :
                UpdateTeacherProfileAuth(r, tok, profile_data)
        \/ UpdateTeacherProfileUpdate(r)

SpecCourse == InitCourse /\ [][NextCourse]_vars

\* The accounts of the enrollment specification: a teacher and two students.
EnrollActors ==
    <<[email |-> "a@x", password |-> "pw1", full_name |-> "Ann", role |-> "teacher"],
      [email |-> "b@x", password |-> "pw2", full_name |-> "Bob", role |-> "student"],
      [email |-> "c@x", password |-> "pw1", full_name |-> "Cy", role |-> "student"]>>

\* The state after the three accounts registered one after the other and the
\* teacher created a course.
InitEnroll ==
    LET teacher == Account(EnrollActors, 1)
        body == CHOOSE b \in CourseCreateBodies : b.title = "Algebra"
        course == Course(body, teacher.id, teacher.full_name, Uuid("course", 1))
    IN  /\ users = [n \in 1..3 |->
                      UserDict(Account(EnrollActors, n),
                               get_password_hash(EnrollActors[n].password))]
        /\ teachers = <<Teacher(teacher, Uuid("teacher", 1))>>
        /\ courses = <<course>>
        /\ progress = <<>>
        /\ quizzes = <<>>
        /\ quiz_submissions = <<>>
        /\ community_posts = <<>>
        /\ nextId = [user |-> 4, teacher |-> 2, course |-> 2, progress |-> 1, quiz |-> 1, post |-> 1]
        /\ req = [r \in Reqs |-> Idle]
        /\ last = Respond([NewReq("create_course",
                                  [token |-> create_access_token(teacher.id),
                                   course_data |-> body])
                             EXCEPT !.loc = [current_user |-> UserResponse(teacher),
                                             course |-> course]],
                          200, course)

\* The updates of the enrollment specification: one within the documented
\* ranges and one outside them.
ProgressUpdates == {<<50, 3>>, <<150, -1>>}

\* Enrollment and progress, with requests interleaving.
NextEnroll ==
    \E r \in Reqs :
        \/ \E n \in 1..Len(users), course_id \in {Uuid("course", 1), Uuid("course", 0)} :
                EnrollAuth(r, LoginToken(n), course_id)
        \/ EnrollUpdate(r)
        \/ EnrollFind(r)
        \/ EnrollInsert(r)
        \/ \E progress_id \in ProgressIds, u \in ProgressUpdates :
                update_progress(r, progress_id, u[1], u[2])

SpecEnroll == InitEnroll /\ [][NextEnroll]_vars

\* The quiz route.
NextQuiz ==
    \E r \in Reqs :
        \/ \E course_id \in CourseIds : QuizFind(r, course_id)
        \/ QuizInsert(r)

SpecQuiz == Init /\ [][NextQuiz]_vars

\* Quizzes and their submissions, by the two students and with a token that
\* does not decode, one request at a time.
NextSubmit ==
    \E r \in {1} :
        \/ \E course_id \in {Uuid("course", 1), Uuid("course", 0)} : QuizFind(r, course_id)
        \/ QuizInsert(r)
        \/ \E tok \in {LoginToken(2), LoginToken(3), MalformedToken},
              submission \in QuizSubmissionBodies :
                SubmitQuizAuth(r, tok, submission)
        \/ SubmitQuizFind(r)
        \/ SubmitQuizInsert(r)

SpecSubmit == InitEnroll /\ [][NextSubmit]_vars

\* The body of the n-th course the teacher of the listing specification
\* created: the two bodies in turn.
ListedBody(n) ==
    CHOOSE b \in CourseCreateBodies :
        b.title = (IF n % 2 = 1 THEN "Algebra" ELSE "Python")

\* The n-th course of the listing specification.
ListedCourse(n) ==
    Course(ListedBody(n), Account(CourseActors, 1).id,
           Account(CourseActors, 1).full_name, Uuid("course", n))

\* The state after the three accounts registered and the teacher created n
\* courses, one after the other, for some n up to MaxListed.
InitList ==
    \E n \in 0..MaxListed :
        /\ users = [i \in 1..3 |->
                      UserDict(Account(CourseActors, i),
                               get_password_hash(CourseActors[i].password))]
        /\ teachers = <<Teacher(Account(CourseActors, 1), Uuid("teacher", 1))>>
        /\ courses = [i \in 1..n |-> ListedCourse(i)]
        /\ progress = <<>>
        /\ quizzes = <<>>
        /\ quiz_submissions = <<>>
        /\ community_posts = <<>>
        /\ nextId = [user |-> 4, teacher |-> 2, course |-> n + 1, progress |-> 1,
                     quiz |-> 1, post |-> 1]
        /\ req = [r \in Reqs |-> Idle]
        /\ last = IF n = 0 THEN Registered(CourseActors, 3)
                  ELSE Respond([NewReq("create_course",
                                       [token |-> create_access_token(Account(CourseActors, 1).id),
                                        course_data |-> ListedBody(n)])
                                  EXCEPT !.loc = [current_user |-> Account(CourseActors, 1),
                                                  course |-> ListedCourse(n)]],
                               200, ListedCourse(n))

\* The course listing and the seeding of the sample data.
NextList ==
    \E r \in Reqs :
        \/ \E subject \in SubjectParams, difficulty \in DifficultyParams :
                get_courses(r, subject, difficulty)
        \/ seed_database(r)
        \/ SeedInsertCourses(r)
        \/ SeedDeleteTeachers(r)
        \/ SeedInsertTeachers(r)
        \/ SeedDeletePosts(r)
        \/ SeedInsertPosts(r)

SpecList == InitList /\ [][NextList]_vars

\* The course listing alone, over every number of stored courses.
NextListing ==
    \E r \in Reqs, subject \in SubjectParams, difficulty \in DifficultyParams :
        get_courses(r, subject, difficulty)

SpecListing == InitList /\ [][NextListing]_vars

\* The ids the dashboards are asked for: a registered user's and the sample
\* data's.
DashboardStudentIds == {Uuid("user", 1), SampleId("student_", 1)}

DashboardTeacherIds == {Uuid("user", 1), SampleId("teacher_", 1)}

\* Accounts, the teacher profile, the listings, the dashboards and the
\* seeding of the sample data, one request at a time.
NextSite ==
    \E r \in {1} :
        \/ \E user_data \in UserCreateBodies : RegisterFind(r, user_data)
        \/ RegisterInsertUser(r)
        \/ RegisterInsertTeacher(r)
        \/ \E user_data \in UserLoginBodies : login(r, user_data)
        \/ \E tok \in PresentedTokens : get_me(r, tok)
        \/ \E tok \in PresentedTokens, profile_data \in TeacherCreateBodies :
                UpdateTeacherProfileAuth(r, tok, profile_data)
        \/ UpdateTeacherProfileUpdate(r)
        \/ \E subject \in SubjectParams : get_courses(r, subject, None)
        \/ \E subject \in SubjectParams : get_teachers(r, subject)
        \/ \E student_id \in DashboardStudentIds : StudentDashboardCourses(r, student_id)
        \/ StudentDashboardProgress(r)
        \/ StudentDashboardPosts(r)
        \/ \E teacher_id \in DashboardTeacherIds : TeacherDashboardCourses(r, teacher_id)
        \/ TeacherDashboardProgress(r)
        \/ seed_database(r)
        \/ SeedInsertCourses(r)
        \/ SeedDeleteTeachers(r)
        \/ SeedInsertTeachers(r)
        \/ SeedDeletePosts(r)
        \/ SeedInsertPosts(r)

SpecSite == Init /\ [][NextSite]_vars

\* Course creation by the teacher and the seeding of the sample data, with
\* requests interleaving.
NextReset ==
    \E r \in Reqs :
        \/ \E n \in 1..Len(users), course_data \in CourseCreateBodies :
                CreateCourseAuth(r, LoginToken(n), course_data)
        \/ CreateCourseInsert(r)
        \/ seed_database(r)
        \/ SeedInsertCourses(r)
        \/ SeedDeleteTeachers(r)
        \/ SeedInsertTeachers(r)
        \/ SeedDeletePosts(r)
        \/ SeedInsertPosts(r)

SpecReset == InitCourse /\ [][NextReset]_vars

\* The course ids of the catalog specification: the course the teacher
\* created and the first course of the sample data.
CatalogCourseIds == {Uuid("course", 1), SampleId("course_", 1)}

\* Enrollment, course creation, progress updates and seed-data on the
\* database of the enrollment specification, one request at a time.
NextCatalog ==
    \E r \in {1} :
        \/ \E n \in 1..Len(users), course_id \in CatalogCourseIds :
                EnrollAuth(r, LoginToken(n), course_id)
        \/ EnrollUpdate(r)
        \/ EnrollFind(r)
        \/ EnrollInsert(r)
        \/ \E course_data \in {b \in CourseCreateBodies : b.title = "Algebra"} :
                CreateCourseAuth(r, LoginToken(1), course_data)
        \/ CreateCourseInsert(r)
        \/ \E progress_id \in ProgressIds : update_progress(r, progress_id, 50, 3)
        \/ seed_database(r)
        \/ SeedInsertCourses(r)
        \/ SeedDeleteTeachers(r)
        \/ SeedInsertTeachers(r)
        \/ SeedDeletePosts(r)
        \/ SeedInsertPosts(r)

SpecCatalog == InitEnroll /\ [][NextCatalog]_vars

\* The submissions of the writing specification: one answer list with each
\* of the client's fields, and one for a quiz that is not stored.
WrittenSubmissions ==
    {b \in QuizSubmissionBodies :
        \/ b.answers = <<1>>
        \/ b.quiz_id = Uuid("quiz", 0) /\ QuizSubmissionValid(b)}

\* The tokens of the writing specification: the teacher's, the student's and
\* one that does not decode.
WriterTokens == {LoginToken(1), LoginToken(2), MalformedToken}

\* The handlers that insert or update after the accounts exist and are no
\* enrollment: courses, the teacher profile, quizzes, submissions and posts,
\* by the teacher, by the student and with a token that does not decode, one
\* request at a time.
NextWrites ==
    \E r \in {1} :
        \/ \E tok \in WriterTokens, course_data \in CourseCreateBodies :
                CreateCourseAuth(r, tok, course_data)
        \/ CreateCourseInsert(r)
        \/ \E tok \in WriterTokens, profile_data \in TeacherCreateBodies :
                UpdateTeacherProfileAuth(r, tok, profile_data)
        \/ UpdateTeacherProfileUpdate(r)
        \/ \E course_id \in {Uuid("course", 1), Uuid("course", 0)} : QuizFind(r, course_id)
        \/ QuizInsert(r)
        \/ \E tok \in WriterTokens, submission \in WrittenSubmissions :
                SubmitQuizAuth(r, tok, submission)
        \/ SubmitQuizFind(r)
        \/ SubmitQuizInsert(r)
        \/ \E tok \in WriterTokens, post_data \in PostCreateBodies :
                CreatePostAuth(r, tok, post_data)
        \/ CreatePostInsert(r)

SpecWrites == InitCourse /\ [][NextWrites]_vars

(***************************************************************************)
(* Properties.                                                             *)
(***************************************************************************)
\* The routes that depend on get_current_user.
AuthRoutes == {"get_me", "create_course", "enroll", "update_teacher_profile"}

\* The stored user a token stands for: none unless the token decodes, has not
\* expired and names the id of a stored user.
Acting(tok) ==
    IF tok.wellformed /\ ~tok.expired /\ \E i \in 1..Len(users) : users[i].id = tok.sub
    THEN users[CHOOSE i \in 1..Len(users) : users[i].id = tok.sub]
    ELSE NoDoc

\* No request is in flight after the step that was not in flight before it.
NoneProceeds == \A r \in Reqs : InFlight(req'[r]) => InFlight(req[r])

\* C1: a request to a bearer-authenticated route whose token is malformed,
\* expired, without subject or names no stored user ends with status 401.
C1_BadTokenIsUnauthenticated ==
    (/\ last.pc = "done"
     /\ last.op \in AuthRoutes
     /\ Acting(last.arg.token) = NoDoc)
    => last.status = 401

\* C2: a register request whose email a stored user already has ends at once
\* with status 400 and changes neither users nor teachers; and a login with
\* the email and the password of the first account stored under that email
\* succeeds as that account.
C2_DuplicateEmailIsConflict ==
    [][/\ \A user_data \in UserCreateBodies :
            (/\ \E r \in Reqs : RegisterFind(r, user_data)
             /\ \E i \in 1..Len(users) : users[i].email = user_data.email)
            => /\ last' = Respond(NewReq("register", user_data), 400,
                                  "Email already registered")
               /\ NoneProceeds
               /\ UNCHANGED <<users, teachers>>
       /\ \A user_data \in UserLoginBodies :
            (/\ \E r \in Reqs : login(r, user_data)
             /\ \E i \in 1..Len(users) :
                    /\ users[i].email = user_data.email
                    /\ \A j \in 1..(i - 1) : users[j].email # user_data.email
                    /\ users[i].hashed_password = get_password_hash(user_data.password))
            => /\ last'.op = "login"
               /\ last'.status = 200
               /\ last'.body.user.email = user_data.email
      ]_vars

\* C2's case: a register request was refused with 400 for an email that the
\* stored user registered with another password.
C2_Witness ==
    /\ last.op = "register"
    /\ last.status = 400
    /\ \E i \in 1..Len(users) :
            /\ users[i].email = last.arg.email
            /\ users[i].hashed_password # get_password_hash(last.arg.password)

\* C3: no two documents of the users collection share an email.
C3_EmailsAreUnique ==
    \A i, j \in 1..Len(users) : i # j => users[i].email # users[j].email

\* C4: create_course by a student ends with 403 and inserts nothing; by a
\* teacher it goes on to the insert, which appends exactly one course with the
\* teacher's id and full_name and no enrolled students, and returns it with 200.
C4_CreateCourseRoleGate ==
    [][/\ \A tok \in CourseTokens, course_data \in CourseCreateBodies :
            /\ (/\ Acting(tok) # NoDoc
                /\ Acting(tok).role = "student"
                /\ \E r \in Reqs : CreateCourseAuth(r, tok, course_data))
               => /\ last'.op = "create_course"
                  /\ last'.status = 403
                  /\ NoneProceeds
                  /\ UNCHANGED courses
            /\ (/\ Acting(tok) # NoDoc
                /\ Acting(tok).role = "teacher"
                /\ \E r \in Reqs : CreateCourseAuth(r, tok, course_data))
               => /\ \E r \in Reqs : req'[r].pc = "insert_course" /\ req[r].pc = "idle"
                  /\ UNCHANGED <<courses, last>>
       /\ \A r \in Reqs :
            CreateCourseInsert(r)
            => LET tok == req[r].arg.token
                   new == courses'[Len(courses')]
               IN  /\ Acting(tok) # NoDoc
                   /\ Acting(tok).role = "teacher"
                   /\ courses' = Append(courses, new)
                   /\ new.teacher_id = Acting(tok).id
                   /\ new.teacher_name = Acting(tok).full_name
                   /\ new.enrolled_students = <<>>
                   /\ new.title = req[r].arg.course_data.title
                   /\ \A i \in 1..Len(courses) : courses[i].id # new.id
                   /\ last'.status = 200
                   /\ last'.body = new
      ]_vars

\* C4's cases: a teacher's course is stored under the teacher's id and name,
\* and a student has just been refused.
C4_Witness ==
    /\ last.op = "create_course"
    /\ last.status = 403
    /\ last.loc.current_user.role = "student"
    /\ \E i \in 1..Len(courses), j \in 1..Len(users) :
            /\ users[j].role = "teacher"
            /\ courses[i].teacher_id = users[j].id
            /\ courses[i].teacher_name = users[j].full_name

\* C5: enroll by a user who is not a student, and update_teacher_profile by a
\* user who is not a teacher, end with 403 and leave courses, progress and
\* teachers as they were.
C5_FailedRoleCheckWritesNothing ==
    [][/\ \A tok \in CourseTokens, course_id \in CourseIds :
            (/\ Acting(tok) # NoDoc
             /\ Acting(tok).role # "student"
             /\ \E r \in Reqs : EnrollAuth(r, tok, course_id))
            => /\ last'.op = "enroll"
               /\ last'.status = 403
               /\ NoneProceeds
               /\ UNCHANGED <<courses, progress, teachers>>
       /\ \A tok \in CourseTokens, profile_data \in TeacherCreateBodies :
            (/\ Acting(tok) # NoDoc
             /\ Acting(tok).role # "teacher"
             /\ \E r \in Reqs : UpdateTeacherProfileAuth(r, tok, profile_data))
            => /\ last'.op = "update_teacher_profile"
               /\ last'.status = 403
               /\ NoneProceeds
               /\ UNCHANGED <<courses, progress, teachers>>
      ]_vars

\* C5's case: a teacher, whose profile is stored, has just been refused
\* enrollment in a stored course.
C5_Witness ==
    /\ last.op = "enroll"
    /\ last.status = 403
    /\ last.loc.current_user.role = "teacher"
    /\ \E i \in 1..Len(teachers) : teachers[i].user_id = last.loc.current_user.id
    /\ \E i \in 1..Len(courses) : courses[i].id = last.arg.course_id

\* The requests of operation op the state holds: those in flight and the
\* last one that ended.
Held(op) == {q \in {req[r] : r \in Reqs} \cup {last} : q.op = op}

\* C6: no course lists a student twice, and every course an enrollment has
\* updated, or a Progress record names, lists that student exactly once.
C6_EnrolledExactlyOnce ==
    /\ \A i \in 1..Len(courses), j \in 1..Len(users) :
            Count(courses[i].enrolled_students, users[j].id) <= 1
    /\ \A q \in Held("enroll"), i \in 1..Len(courses) :
            (/\ q.pc \in {"find_course", "insert_progress", "done"}
             /\ q.loc # Nil
             /\ q.loc.current_user.role = "student"
             /\ q.pc = "done" => q.status = 200
             /\ courses[i].id = q.arg.course_id)
            => Count(courses[i].enrolled_students, q.loc.current_user.id) = 1
    /\ \A k \in 1..Len(progress), i \in 1..Len(courses) :
            courses[i].id = progress[k].course_id
            => Count(courses[i].enrolled_students, progress[k].student_id) = 1

\* C6's case: a student has enrolled in a course twice, another student has
\* enrolled in it as well, and the course lists each of them once.
C6_Witness ==
    \E i \in 1..Len(courses), k1, k2, k3 \in 1..Len(progress) :
        /\ k1 # k2
        /\ progress[k1].course_id = courses[i].id
        /\ progress[k2].course_id = courses[i].id
        /\ progress[k3].course_id = courses[i].id
        /\ progress[k1].student_id = progress[k2].student_id
        /\ progress[k3].student_id # progress[k1].student_id
        /\ Count(courses[i].enrolled_students, progress[k1].student_id) = 1
        /\ Count(courses[i].enrolled_students, progress[k3].student_id) = 1

\* C7: the progress collection holds at most one record for each pair of
\* student_id and course_id.
C7_OneProgressPerStudentAndCourse ==
    \A i, j \in 1..Len(progress) :
        (/\ progress[i].student_id = progress[j].student_id
         /\ progress[i].course_id = progress[j].course_id)
        => i = j

\* The quizzes stored for a course.
QuizzesOf(course_id) == Find(quizzes, "course_id", course_id)

\* C8: a get_course_quiz request that found no quiz for the course and ran
\* alone ends with 200 and the quiz it built, which is the one quiz stored for
\* the course: two questions, title "Course Assessment".
C8_NewQuizIsStoredAndReturned ==
    (/\ last.op = "get_course_quiz"
     /\ last.pc = "done"
     /\ last.solo
     /\ last.loc.quiz.kind = "model")
    => /\ QuizzesOf(last.arg.course_id) = <<last.loc.quiz.value>>
       /\ last.loc.quiz.value.title = "Course Assessment"
       /\ Len(last.loc.quiz.value.questions) = 2
       /\ last.status = 200
       /\ last.body = last.loc.quiz.value

\* C9: when a get_course_quiz request arrives right after one that ran alone
\* and created the quiz of the same course, it inserts nothing and both
\* requests return the same quiz id, that of the one quiz stored for the course.
C9_SecondCallReturnsTheFirstQuiz ==
    [][\A course_id \in CourseIds :
            (/\ \E r \in Reqs : QuizFind(r, course_id)
             /\ NoneInFlight
             /\ last.op = "get_course_quiz"
             /\ last.solo
             /\ last.arg.course_id = course_id
             /\ last.loc.quiz.kind = "model")
            => /\ UNCHANGED quizzes
               /\ Len(QuizzesOf(course_id)) = 1
               /\ last'.status = 200
               /\ last'.body.id = QuizzesOf(course_id)[1].id
               /\ last.status = 200
               /\ last.body.id = last'.body.id
      ]_vars

\* C10: when a get_course_quiz request inserts the quiz it built while the
\* last request to end had built and inserted one for the same course (each
\* read "no quiz" before either inserted), the collection then holds two
\* quizzes with that course_id and different ids.
C10_RacingFirstRequestsLeaveDuplicates ==
    [][\A r \in Reqs :
            (/\ QuizInsert(r)
             /\ last.op = "get_course_quiz"
             /\ last.loc.quiz.kind = "model"
             /\ last.arg.course_id = req[r].arg.course_id)
            => \E i, j \in 1..Len(quizzes') :
                    /\ quizzes'[i].course_id = req[r].arg.course_id
                    /\ quizzes'[j].course_id = req[r].arg.course_id
                    /\ quizzes'[i].id # quizzes'[j].id
      ]_vars

\* C10's case: two requests for the same course have both ended after each
\* built a quiz, and two quizzes with different ids are stored for the course.
C10_Witness ==
    /\ NoneInFlight
    /\ last.op = "get_course_quiz"
    /\ last.loc.quiz.kind = "model"
    /\ ~last.solo
    /\ \E i, j \in 1..Len(quizzes) :
            /\ quizzes[i].course_id = last.arg.course_id
            /\ quizzes[j].course_id = last.arg.course_id
            /\ quizzes[i].id # quizzes[j].id


\* The stored quiz a submission names.
QuizOf(submission) == FindOne(quizzes, "id", submission.quiz_id)

\* The number of positions below both lengths at which the answer is the
\* question's correct_answer (positions counted from 0, as the claims do).
Matching(questions, answers) ==
    Cardinality({i \in 0..(Min(Len(answers), Len(questions)) - 1) :
                    answers[i + 1] = questions[i + 1].correct_answer})

\* The last request is a submission with a complete body, by a stored user,
\* for a stored quiz.
SubmittedLast ==
    /\ last.op = "submit_quiz"
    /\ Acting(last.arg.token) # NoDoc
    /\ QuizSubmissionValid(last.arg.submission)
    /\ QuizOf(last.arg.submission) # NoDoc

\* C11: a submission for a stored quiz with N questions ends with 200 and a
\* score with score * N = 100 * (matching positions below min(len(answers), N));
\* for the correct answers [1,2] the answers [1,2] score 100, [0,0] score 0,
\* [1] scores 50, and answers at positions >= N do not change the score.
C11_ScoreIsShareOfMatchingAnswers ==
    SubmittedLast =>
        LET answers == last.arg.submission.answers
            questions == QuizOf(last.arg.submission).questions
            N == Len(questions)
        IN  /\ last.status = 200
            /\ last.body.score * N = 100 * Matching(questions, answers)
            /\ last.body.score =
                    Score(CorrectAnswers(questions, SubSeq(answers, 1, Min(Len(answers), N))), N)
            /\ (/\ questions[1].correct_answer = 1
                /\ questions[2].correct_answer = 2
                /\ N = 2)
               => /\ answers = <<1, 2>> => last.body.score = 100
                  /\ answers = <<0, 0>> => last.body.score = 0
                  /\ answers = <<1>> => last.body.score = 50
                  /\ answers = <<1, 2, 0>> => last.body.score = 100

\* C11's cases: a submission longer than the quiz has just scored 100, and a
\* shorter one is stored with 50.
C11_Witness ==
    /\ SubmittedLast
    /\ last.arg.submission.answers = <<1, 2, 0>>
    /\ last.body.score = 100
    /\ \E k \in 1..Len(quiz_submissions) :
            quiz_submissions[k].answers = <<1>> /\ quiz_submissions[k].score = 50

\* C12: the record a submission stores has the acting user's id as student_id
\* and the computed score as score, whatever the body gave for the two; stored
\* records with the same quiz and answers have the same score.
C12_StoredSubmissionIsServerComputed ==
    [][\A r \in Reqs :
            SubmitQuizInsert(r)
            => LET submission == req[r].arg.submission
                   questions == QuizOf(submission).questions
                   new == quiz_submissions'[Len(quiz_submissions')]
               IN  /\ quiz_submissions' = Append(quiz_submissions, new)
                   /\ new.student_id = Acting(req[r].arg.token).id
                   /\ new.score * Len(questions) = 100 * Matching(questions, submission.answers)
                   /\ new.quiz_id = submission.quiz_id
                   /\ new.answers = submission.answers
                   /\ \A k \in 1..Len(quiz_submissions) :
                        (/\ quiz_submissions[k].quiz_id = new.quiz_id
                         /\ quiz_submissions[k].answers = new.answers)
                        => quiz_submissions[k].score = new.score
      ]_vars

\* C12's case: two stored submissions of one user with the same quiz and
\* answers, the last of them sent with another user's id and another score
\* than the stored ones.
C12_Witness ==
    /\ SubmittedLast
    /\ last.status = 200
    /\ last.arg.submission.student_id # Acting(last.arg.token).id
    /\ last.arg.submission.score # last.body.score
    /\ Len(quiz_submissions) = 2
    /\ quiz_submissions[1] = quiz_submissions[2]
    /\ quiz_submissions[2].student_id = Acting(last.arg.token).id
    /\ quiz_submissions[2].score = last.body.score

\* C13: a submission without a score field, by a stored user for a stored
\* quiz, ends with 200 and its record is stored.
C13_SubmissionWithoutScoreIsAccepted ==
    (/\ last.op = "submit_quiz"
     /\ Acting(last.arg.token) # NoDoc
     /\ "score" \notin DOMAIN last.arg.submission
     /\ QuizOf(last.arg.submission) # NoDoc)
    => /\ last.status = 200
       /\ \E k \in 1..Len(quiz_submissions) :
            /\ quiz_submissions[k].quiz_id = last.arg.submission.quiz_id
            /\ quiz_submissions[k].answers = last.arg.submission.answers

\* The elements of a sequence.
Range(seq) == {seq[i] : i \in 1..Len(seq)}

\* The last request that ended is a seed-data request during which no other
\* request was in flight, and none has started since.
SeededAlone ==
    /\ last.op = "seed_database"
    /\ last.pc = "done"
    /\ last.solo
    /\ NoneInFlight

\* C14: after a seed-data request that ran alone, the unfiltered listing is
\* the three sample courses course_1, course_2, course_3 with their titles and
\* nothing else, whatever was stored before and however often it was seeded.
C14_SeedThenListIsTheSample ==
    SeededAlone =>
        LET listing == CourseListing(courses, None, None)
        IN  /\ Len(listing) = 3
            /\ \A i \in 1..3 :
                /\ listing[i].id = SampleId("course_", i)
                /\ listing[i].title = sample_courses[i].title
                /\ listing[i] = CourseFromDoc(sample_courses[i])
            /\ listing[1].title = "Introduction to Python Programming"
            /\ listing[2].title = "Data Structures & Algorithms"
            /\ listing[3].title = "Web Development with React"

\* C14's case: courses had been created before the seeding that ran alone.
C14_Witness ==
    /\ SeededAlone
    /\ nextId.course > 3
    /\ Len(CourseListing(courses, None, None)) = 3

\* Every course of a listing has the subject and the difficulty asked for.
OnlyMatching(listing, subject, difficulty) ==
    \A i \in 1..Len(listing) :
        /\ Truthy(subject) => listing[i].subject = subject
        /\ Truthy(difficulty) => listing[i].difficulty_level = difficulty

\* The stored courses as the listing presents them.
StoredCourses == [i \in 1..Len(courses) |-> CourseFromDoc(courses[i])]

\* The last request that ended is a listing, answered with what the listing
\* of the stored courses is for its parameters.
ListedLast ==
    last.op = "get_courses"
    => /\ last.status = 200
       /\ last.body = CourseListing(courses, last.arg.subject, last.arg.difficulty)

\* C15 as stated: a filtered listing holds only matching courses and is a
\* subset of the unfiltered listing, and the listing with no or an empty
\* filter is the full set of stored courses.
C15_ListingIsFullAndFilteredIsSubset ==
    /\ ListedLast
    /\ \A subject \in SubjectParams, difficulty \in DifficultyParams :
        LET listing == CourseListing(courses, subject, difficulty)
            unfiltered == CourseListing(courses, None, None)
        IN  /\ OnlyMatching(listing, subject, difficulty)
            /\ Range(listing) \subseteq Range(unfiltered)
            /\ (~Truthy(subject) /\ ~Truthy(difficulty)) => listing = StoredCourses

\* C15 amended: a filtered listing holds only matching courses, all of them
\* stored, at most CoursesPageSize of them: the first matching ones in stored
\* order; the listing with no or an empty filter is the first CoursesPageSize
\* stored courses; and while no more than CoursesPageSize courses are stored,
\* the unfiltered listing is the full set and every listing a subset of it.
C15_ListingIsCappedAndFilteredIsMatching ==
    /\ ListedLast
    /\ \A subject \in SubjectParams, difficulty \in DifficultyParams :
        LET listing == CourseListing(courses, subject, difficulty)
            unfiltered == CourseListing(courses, None, None)
        IN  /\ OnlyMatching(listing, subject, difficulty)
            /\ Range(listing) \subseteq Range(StoredCourses)
            /\ Len(listing) <= CoursesPageSize
            /\ \A i \in 1..Len(StoredCourses) :
                (/\ OnlyMatching(<<StoredCourses[i]>>, subject, difficulty)
                 /\ StoredCourses[i] \notin Range(listing))
                => /\ Len(listing) = CoursesPageSize
                   /\ \E j \in 1..(i - 1) : StoredCourses[j] = listing[CoursesPageSize]
            /\ (~Truthy(subject) /\ ~Truthy(difficulty))
                => listing = SubSeq(StoredCourses, 1, Min(CoursesPageSize, Len(courses)))
            /\ Len(courses) <= CoursesPageSize
                => /\ unfiltered = StoredCourses
                   /\ Range(listing) \subseteq Range(unfiltered)

\* C15's case: more courses are stored than a listing holds, and the last
\* listing, a filtered one, holds a course the unfiltered one does not.
C15_Witness ==
    /\ Len(courses) > CoursesPageSize
    /\ last.op = "get_courses"
    /\ last.arg.subject = "Math"
    /\ Len(CourseListing(courses, "", None)) = CoursesPageSize
    /\ \E c \in Range(last.body) : c \notin Range(CourseListing(courses, None, None))

\* C17: update_teacher_profile leaves bio and hourly_rate as they were when
\* the request omits them (they are None in the parsed body), and never
\* changes full_name, email, rating, total_students, id and user_id.
C17_OmittedFieldsKeepTheirValues ==
    [][\A r \in Reqs :
            UpdateTeacherProfileUpdate(r)
            => /\ Len(teachers') = Len(teachers)
               /\ \A i \in 1..Len(teachers) :
                    /\ \A k \in {"full_name", "email", "rating", "total_students",
                                 "id", "user_id"} : teachers'[i][k] = teachers[i][k]
                    /\ req[r].arg.profile_data.bio = None
                        => teachers'[i].bio = teachers[i].bio
                    /\ req[r].arg.profile_data.bio = None
                        => teachers'[i].hourly_rate = teachers[i].hourly_rate
      ]_vars

\* C19: every stored user has the role student or teacher.
C19_RolesAreStudentOrTeacher ==
    \A i \in 1..Len(users) : users[i].role \in {"student", "teacher"}

\* C20: every Progress record has a completion_percentage from 0 to 100 and
\* time_spent_hours of at least 0.
C20_ProgressStaysInRange ==
    \A i \in 1..Len(progress) :
        /\ 0 <= progress[i].completion_percentage
        /\ progress[i].completion_percentage <= 100
        /\ progress[i].time_spent_hours >= 0

\* No register request is in flight.
NoRegisterInFlight == \A r \in Reqs : ~(req[r].op = "register" /\ InFlight(req[r]))

\* The Teacher profiles stored for a user.
ProfilesOf(user_id) == {i \in 1..Len(teachers) : teachers[i].user_id = user_id}

\* C16: while no register request is in flight, every stored user with the
\* role teacher has exactly one Teacher profile with the user's id as user_id.
C16_EveryTeacherHasOneProfile ==
    NoRegisterInFlight =>
        \A i \in 1..Len(users) :
            users[i].role = "teacher" => Cardinality(ProfilesOf(users[i].id)) = 1

\* The fields of the public view of a user.
PublicUserFields == {"id", "email", "full_name", "role", "profile_image", "bio"}

\* The fields that hold a password or its hash.
SecretFields == {"password", "hashed_password"}

\* No document of a sequence has a field that holds a password or its hash.
NoSecretIn(docs) == \A i \in 1..Len(docs) : DOMAIN docs[i] \cap SecretFields = {}

\* The messages the handlers of the site specification answer with.
Messages ==
    {"auth", "Email already registered", "Invalid credentials",
     "Only teachers can update profile", "Profile updated successfully",
     "Database seeded with sample data successfully", "ObjectId"}

\* C18: a response is a message, or data without any password or hash: the
\* token responses of register and login hold the public view of the user and
\* a token made of the user's id, get_me answers with the public view, and the
\* listings and dashboards hold documents without such fields; only the users
\* collection stores the hash, and it stores no password.
C18_NoResponseHoldsThePassword ==
    /\ \A i \in 1..Len(users) :
            /\ "password" \notin DOMAIN users[i]
            /\ users[i].hashed_password.scheme = "bcrypt"
    /\ NoSecretIn(teachers) /\ NoSecretIn(courses) /\ NoSecretIn(progress)
    /\ NoSecretIn(community_posts)
    /\ last.pc = "done" =>
        IF last.status # 200 \/ last.op \in {"update_teacher_profile", "seed_database"}
        THEN last.body \in Messages
        ELSE CASE last.op \in {"register", "login"} ->
                    /\ DOMAIN last.body = {"access_token", "token_type", "user"}
                    /\ last.body.token_type = "bearer"
                    /\ last.body.access_token = create_access_token(last.body.user.id)
                    /\ DOMAIN last.body.user = PublicUserFields
                    /\ \E i \in 1..Len(users) :
                            \A k \in PublicUserFields : last.body.user[k] = users[i][k]
               [] last.op = "get_me" ->
                    /\ DOMAIN last.body = PublicUserFields
                    /\ \E i \in 1..Len(users) :
                            \A k \in PublicUserFields : last.body[k] = users[i][k]
               [] last.op \in {"get_courses", "get_teachers"} -> NoSecretIn(last.body)
               [] last.op = "get_student_dashboard" ->
                    /\ DOMAIN last.body = {"learning_path", "enrolled_courses", "progress",
                                           "recent_posts", "ai_insights"}
                    /\ NoSecretIn(last.body.enrolled_courses)
                    /\ NoSecretIn(last.body.progress)
                    /\ NoSecretIn(last.body.recent_posts)
                    /\ DOMAIN last.body.learning_path \cap SecretFields = {}
                    /\ DOMAIN last.body.ai_insights \cap SecretFields = {}
               [] last.op = "get_teacher_dashboard" ->
                    /\ DOMAIN last.body = {"courses", "student_progress", "analytics"}
                    /\ NoSecretIn(last.body.courses)
                    /\ NoSecretIn(last.body.student_progress)
                    /\ DOMAIN last.body.analytics \cap SecretFields = {}
               [] OTHER -> FALSE

\* C18's case: a login has just been answered with the public view of a user
\* whose document holds the hash of the password sent.
C18_Witness ==
    /\ last.op = "login"
    /\ last.status = 200
    /\ \E i \in 1..Len(users) :
            /\ users[i].id = last.body.user.id
            /\ verify_password(last.arg.password, users[i].hashed_password)
            /\ "hashed_password" \in DOMAIN users[i]
    /\ "hashed_password" \notin DOMAIN last.body.user

\* C21: every course a step inserts, create_course's or seed-data's, has as
\* teacher_id the id of a user stored at that moment whose role is teacher.
C21_InsertedCourseHasStoredTeacher ==
    [][\A r \in Reqs :
            (CreateCourseInsert(r) \/ SeedInsertCourses(r))
            => /\ Len(courses') > Len(courses)
               /\ \A i \in (Len(courses) + 1)..Len(courses') :
                    \E j \in 1..Len(users) :
                        /\ users[j].id = courses'[i].teacher_id
                        /\ users[j].role = "teacher"
      ]_vars

\* C26: no two documents of the courses collection have the same id.
C26_CourseIdsAreUnique ==
    \A i, j \in 1..Len(courses) : i # j => courses[i].id # courses[j].id


\* The collections of the database.
Collections ==
    <<users, teachers, courses, progress, quizzes, quiz_submissions, community_posts>>

\* C22: a step in which a request other than an enrollment is answered with
\* an error status changes no collection, and the request it ends had written
\* nothing before (register is past its first insert at "insert_teacher"):
\* no handler answers with an error after having inserted or updated a record.
C22_ErrorResponsesWriteNothing ==
    [][(/\ last' # last
        /\ last'.status # 200
        /\ last'.op # "enroll")
          => /\ Collections' = Collections
             /\ \A r \in Reqs :
                    (InFlight(req[r]) /\ req'[r] = Idle) => req[r].pc # "insert_teacher"]_vars


\* Every course stored before the step is stored after it under the same id
\* with at least the students it had.
EnrollmentsKept ==
    \A i \in 1..Len(courses) :
        \E j \in 1..Len(courses') :
            /\ courses'[j].id = courses[i].id
            /\ Range(courses[i].enrolled_students) \subseteq Range(courses'[j].enrolled_students)

\* C23 as stated: in every step, of whatever operation, every course keeps
\* its id and its enrolled students.
C23_EnrollmentsOnlyGrow == [][EnrollmentsKept]_vars

\* C23, amended: every step other than seed-data's delete_many on courses
\* keeps every course's id and enrolled students; enrolled_students only
\* grows for as long as no seed-data request runs.
C23_EnrollmentsOnlyGrowBetweenSeeds ==
    [][(\A r \in Reqs : ~seed_database(r)) => EnrollmentsKept]_vars

\* A registered student is enrolled, next to a sample student, in the sample
\* course that seed-data loaded, and the course the teacher created is gone.
C23_Witness ==
    /\ \E i \in 1..Len(courses) :
            /\ courses[i].id = SampleId("course_", 1)
            /\ {Uuid("user", 2), SampleId("student_", 1)}
                    \subseteq Range(courses[i].enrolled_students)
    /\ \A i \in 1..Len(courses) : courses[i].id # Uuid("course", 1)

\* C27: with no request in flight, every Progress record's course_id is the
\* id of a stored course whose enrolled_students contains its student_id.
C27_ProgressRefersToItsCourse ==
    NoneInFlight =>
        \A p \in 1..Len(progress) :
            \E i \in 1..Len(courses) :
                /\ courses[i].id = progress[p].course_id
                /\ progress[p].student_id \in Range(courses[i].enrolled_students)


\* No stored course has the id.
NoCourseWith(course_id) == \A i \in 1..Len(courses) : courses[i].id # course_id

\* C24: an enrollment by a student on a course id that matches no stored
\* course changes no course and no progress record in its update step, and
\* in its lookup step inserts nothing and ends with status 200 and the
\* success message.
C24_EnrollOnMissingCourseSucceedsWritingNothing ==
    [][\A r \in Reqs :
        /\ (EnrollUpdate(r) /\ NoCourseWith(req[r].arg.course_id))
              => /\ courses' = courses
                 /\ progress' = progress
                 /\ req[r].loc.current_user.role = "student"
        /\ (EnrollFind(r) /\ NoCourseWith(req[r].arg.course_id))
              => /\ courses' = courses
                 /\ progress' = progress
                 /\ req'[r] = Idle
                 /\ last'.op = "enroll"
                 /\ last'.status = 200
                 /\ last'.body = "Successfully enrolled in course"]_vars

\* A student's enrollment on a course id that is not stored has been answered
\* with 200; the update matched nothing and no progress record has that id.
C24_Witness ==
    /\ last.op = "enroll" /\ last.status = 200
    /\ last.loc.current_user.role = "student"
    /\ NoCourseWith(last.arg.course_id)
    /\ last.loc.matched = FALSE
    /\ last.body = "Successfully enrolled in course"
    /\ \A p \in 1..Len(progress) : progress[p].course_id # last.arg.course_id

\* The progress records of the student on the course.
ProgressOf(student_id, course_id) ==
    {p \in 1..Len(progress) :
        progress[p].student_id = student_id /\ progress[p].course_id = course_id}

\* The student is in the enrolled_students of a stored course with the id.
EnrolledIn(student_id, course_id) ==
    \E i \in 1..Len(courses) :
        /\ courses[i].id = course_id
        /\ student_id \in Range(courses[i].enrolled_students)

\* C25: an enrollment past its update of an existing course, whether or not
\* it has inserted its Progress yet, has the student in enrolled_students;
\* one that ran to completion on an existing course with no other request
\* interleaved has, besides, a Progress of the pair with completion_percentage
\* 0, time_spent_hours 0 and the course's title.
C25_EnrollIsTwoStepsAndCompletes ==
    /\ \A r \in Reqs :
        (/\ req[r].op = "enroll"
         /\ req[r].pc \in {"find_course", "insert_progress"}
         /\ req[r].loc.matched)
            => EnrolledIn(req[r].loc.current_user.id, req[r].arg.course_id)
    /\ (/\ last.op = "enroll" /\ last.status = 200 /\ last.solo
        /\ ~NoCourseWith(last.arg.course_id))
            => /\ EnrolledIn(last.loc.current_user.id, last.arg.course_id)
               /\ \E p \in ProgressOf(last.loc.current_user.id, last.arg.course_id) :
                    /\ progress[p].completion_percentage = 0
                    /\ progress[p].time_spent_hours = 0
                    /\ \E i \in 1..Len(courses) :
                            /\ courses[i].id = last.arg.course_id
                            /\ progress[p].course_title = courses[i].title

\* One enrollment has run to completion alone on the stored course and has
\* its Progress, while another is between its two writes: its student is in
\* enrolled_students and has no Progress of the course.
C25_Witness ==
    /\ last.op = "enroll" /\ last.status = 200 /\ last.solo
    /\ ~NoCourseWith(last.arg.course_id)
    /\ ProgressOf(last.loc.current_user.id, last.arg.course_id) # {}
    /\ \E r \in Reqs :
        /\ req[r].op = "enroll" /\ req[r].pc = "find_course"
        /\ req[r].loc.matched
        /\ EnrolledIn(req[r].loc.current_user.id, req[r].arg.course_id)
        /\ ProgressOf(req[r].loc.current_user.id, req[r].arg.course_id) = {}

=============================================================================
